---- MODULE Spec2Model ----
(***************************************************************************)
(* File-backed contact repository behind a GraphQL query and mutation      *)
(* (src/main.rs).  Worker threads of the HTTP server run FileRepository::set*)
(* and FileRepository::get against one shared directory, one system call   *)
(* at a time.  Strings are modelled by value, as sequences of bytes; a     *)
(* byte is a one-character string.                                         *)
(***************************************************************************)
EXTENDS Integers, Sequences, FiniteSets, TLC

(* ------------------------------ bounds --------------------------------- *)
\* requests accepted in a run that takes one request at a time
MaxReq == 3
\* requests accepted in a run whose requests overlap
MaxConc == 2
\* I/O failures the environment injects in one run
MaxFaults == 1
\* range of the stand-in digest (the program's digest has range 2^64)
HashMod == 4

\* worker threads of the HTTP server
Procs == {1, 2}

(* ------------------------------ bytes ---------------------------------- *)
QUOTE == "\""
BSLASH == "\\"
\* the zero byte a write past the end of a file leaves in the gap
NUL == "NUL"
\* the 0xff byte str::hash feeds after the bytes of a string
SEP == "0xff"

RECURSIVE Flatten(_)
Flatten(chunks) ==
    IF chunks = <<>> THEN <<>> ELSE Head(chunks) \o Flatten(Tail(chunks))

(* ------------------------------ Contact -------------------------------- *)
IdVals == {<<"1">>, <<"2">>}
FirstVals == {<<"a">>, <<"a", QUOTE>>}
LastVals == {<<"b">>, <<"b", "b">>}

Ada == [id |-> <<"1">>, first_name |-> <<"a">>, last_name |-> <<"b">>]

\* the contacts a mutation carries: Ada, and Ada with one field changed
Contact ==
    {c \in [id : IdVals, first_name : FirstVals, last_name : LastVals] :
        Cardinality({f \in {"id", "first_name", "last_name"} : c[f] # Ada[f]}) <= 1}

NoContact == [id |-> <<>>, first_name |-> <<>>, last_name |-> <<>>]

(* ------------------------- content hash, path -------------------------- *)
HashFeedNoLast(c) == c.id \o <<SEP>> \o c.first_name \o <<SEP>>

\* derive(Hash): each field in declaration order, a str as its bytes then 0xff
HashFeed(c) == c.id \o <<SEP>> \o c.first_name \o <<SEP>> \o c.last_name \o <<SEP>>

ByteCode(b) ==
    CASE b = "1" -> 49
      [] b = "2" -> 50
      [] b = "a" -> 97
      [] b = "b" -> 98
      [] b = QUOTE -> 34
      [] b = BSLASH -> 92
      [] b = SEP -> 255
      [] OTHER -> 0

\* DefaultHasher: a deterministic digest of the fed bytes with a finite range.
\* SipHash is replaced by a polynomial digest of narrow range.
RECURSIVE DigestFrom(_, _)
DigestFrom(h, feed) ==
    IF feed = <<>> THEN h
    ELSE DigestFrom((h * 31 + ByteCode(Head(feed))) % HashMod, Tail(feed))

Digest(feed) == DigestFrom(0, feed)

Hash(c) == Digest(HashFeed(c))

Digit(d) ==
    CASE d = 0 -> "0" [] d = 1 -> "1" [] d = 2 -> "2" [] d = 3 -> "3"
      [] d = 4 -> "4" [] d = 5 -> "5" [] d = 6 -> "6" [] d = 7 -> "7"
      [] d = 8 -> "8" [] OTHER -> "9"

\* format!("{}", hash) of an unsigned integer
RECURSIVE Decimal(_)
Decimal(n) ==
    IF n < 10 THEN <<Digit(n)>> ELSE Decimal(n \div 10) \o <<Digit(n % 10)>>

Ext == <<".", "j", "s", "o", "n">>

\* the file name set uses, below the fixed base directory
SetPath(c) == Decimal(Hash(c)) \o Ext

\* the file name get uses
GetPath(id) == id \o Ext

(* --------------------------- serialization ----------------------------- *)
KeyId == <<"i", "d">>
KeyFirst == <<"f", "i", "r", "s", "t", "_", "n", "a", "m", "e">>
KeyLast == <<"l", "a", "s", "t", "_", "n", "a", "m", "e">>

NeedsEscape(b) == b \in {QUOTE, BSLASH}

\* the fragments serde_json writes for the contents of a string: each run of
\* plain bytes in one write, each escaped byte as a two-byte escape
RECURSIVE EscFrom(_, _, _)
EscFrom(s, i, start) ==
    IF i > Len(s)
    THEN IF start <= Len(s) THEN <<SubSeq(s, start, Len(s))>> ELSE <<>>
    ELSE IF NeedsEscape(s[i])
         THEN (IF start < i THEN <<SubSeq(s, start, i - 1)>> ELSE <<>>)
              \o <<(<<BSLASH, s[i]>>)>> \o EscFrom(s, i + 1, i + 1)
         ELSE EscFrom(s, i + 1, start)

StrChunks(s) == <<(<<QUOTE>>)>> \o EscFrom(s, 1, 1) \o <<(<<QUOTE>>)>>

FieldChunks(key, val, first) ==
    (IF first THEN <<>> ELSE <<(<<",">>)>>)
    \o StrChunks(key) \o <<(<<":">>)>> \o StrChunks(val)

\* serde_json::to_writer on an unbuffered File: the sequence of writes
SerChunks(c) ==
    <<(<<"{">>)>>
    \o FieldChunks(KeyId, c.id, TRUE)
    \o FieldChunks(KeyFirst, c.first_name, FALSE)
    \o FieldChunks(KeyLast, c.last_name, FALSE)
    \o <<(<<"}">>)>>

Serialize(c) == Flatten(SerChunks(c))

\* bytes the first k writes cover
ChunkOffset(chunks, k) == Len(Flatten(SubSeq(chunks, 1, k)))

\* the file name, the writes and the offset before each write, per contact,
\* tabulated once (f @@ <<>> is f, as an explicit table)
PathTable == [c \in Contact |-> SetPath(c)] @@ <<>>

ChunkTable == [c \in Contact |-> SerChunks(c)] @@ <<>>

SerialTable == [c \in Contact |-> Serialize(c)] @@ <<>>

OffsetTable ==
    [c \in Contact |->
        [k \in 0..Len(SerChunks(c)) |-> ChunkOffset(SerChunks(c), k)] @@ <<>>] @@ <<>>

(* -------------------------- deserialization ---------------------------- *)
HasAt(buf, i, lit) ==
    /\ i + Len(lit) - 1 <= Len(buf)
    /\ SubSeq(buf, i, i + Len(lit) - 1) = lit

\* from position i inside a string literal: the index of its closing quote,
\* 0 when the input ends first, holds a control byte, or holds an escape
\* (a string with an escape cannot be borrowed from the input as a &str)
RECURSIVE ScanStr(_, _)
ScanStr(buf, i) ==
    IF i > Len(buf) THEN 0
    ELSE IF buf[i] = QUOTE THEN i
    ELSE IF buf[i] \in {BSLASH, NUL} THEN 0
    ELSE ScanStr(buf, i + 1)

LitOpen == <<"{", QUOTE>> \o KeyId \o <<QUOTE, ":", QUOTE>>
LitFirst == <<QUOTE, ",", QUOTE>> \o KeyFirst \o <<QUOTE, ":", QUOTE>>
LitLast == <<QUOTE, ",", QUOTE>> \o KeyLast \o <<QUOTE, ":", QUOTE>>
LitClose == <<QUOTE, "}">>

ParseFail == [ok |-> FALSE, rec |-> NoContact]

\* serde_json::from_str into Contact, on the layout the serializer writes
Parse(buf) ==
    IF ~HasAt(buf, 1, LitOpen) THEN ParseFail
    ELSE LET a1 == Len(LitOpen) + 1
             z1 == ScanStr(buf, a1)
         IN IF z1 = 0 \/ ~HasAt(buf, z1, LitFirst) THEN ParseFail
            ELSE LET a2 == z1 + Len(LitFirst)
                     z2 == ScanStr(buf, a2)
                 IN IF z2 = 0 \/ ~HasAt(buf, z2, LitLast) THEN ParseFail
                    ELSE LET a3 == z2 + Len(LitLast)
                             z3 == ScanStr(buf, a3)
                         IN IF z3 = 0 \/ ~HasAt(buf, z3, LitClose)
                               \/ z3 + Len(LitClose) - 1 # Len(buf)
                            THEN ParseFail
                            ELSE [ok |-> TRUE,
                                  rec |-> [id |-> SubSeq(buf, a1, z1 - 1),
                                           first_name |-> SubSeq(buf, a2, z2 - 1),
                                           last_name |-> SubSeq(buf, a3, z3 - 1)]]

(* ---------------------------- file system ------------------------------ *)
CreateFlagsAppend == {"write", "create", "append"}

CreateFlagsKeep == {"write", "create"}

\* File::create opens write-only, creating the file and truncating it
CreateFlags == {"write", "create", "truncate"}

\* a write of chunk through a descriptor whose own offset is off: bytes past
\* the old end that the write does not cover read as zero
WriteAt(content, off, chunk) ==
    IF "append" \in CreateFlags THEN content \o chunk
    ELSE LET n == IF Len(content) > off + Len(chunk) THEN Len(content)
                  ELSE off + Len(chunk)
         IN [i \in 1..n |->
               IF i > off /\ i <= off + Len(chunk) THEN chunk[i - off]
               ELSE IF i <= Len(content) THEN content[i]
               ELSE NUL]

\* the directory after File::create(p): the file exists, and is empty when
\* it is new or the flags truncate
Truncated(files, p) ==
    [q \in (DOMAIN files) \cup {p} |->
        IF q = p /\ (p \notin DOMAIN files \/ "truncate" \in CreateFlags) THEN <<>>
        ELSE files[q]]

(* ------------------------------ results -------------------------------- *)
NoResult == [kind |-> "none", why |-> "none", rec |-> NoContact]
OkResult(c) == [kind |-> "ok", why |-> "none", rec |-> c]
\* Err(Box<dyn Error>) holding an io::Error
ErrResult(why) == [kind |-> "err", why |-> why, rec |-> NoContact]
\* expect() on an Err: the handler unwinds
PanicResult(why) == [kind |-> "panic", why |-> why, rec |-> NoContact]

\* From<Contact> for QueryContact: the names, without the id
QueryContact(c) == [first_name |-> c.first_name, last_name |-> c.last_name]

\* Contacts::create: Ok and Err of set pass through
UseCaseCreate(r) == r

\* Contacts::get: the result of repo.get
UseCaseGet(r) == r

NoResponse == [kind |-> "none"]

MutationCreateAlways(r) == [kind |-> "payload", payload |-> QueryContact(r.rec)]

\* MutationRoot::create
MutationCreate(r) ==
    CASE r.kind = "ok" -> [kind |-> "payload", payload |-> QueryContact(r.rec)]
      [] r.kind = "err" -> [kind |-> "failure", msg |-> r.why]
      [] OTHER -> [kind |-> "aborted"]

\* QueryRoot::get
QueryGet(r) ==
    CASE r.kind = "ok" -> [kind |-> "contact", contact |-> r.rec]
      [] r.kind = "err" -> [kind |-> "failure", msg |-> r.why]
      [] OTHER -> [kind |-> "aborted"]

FetchedErr(content) ==
    IF Parse(content).ok THEN OkResult(Parse(content).rec)
    ELSE ErrResult("parse")

\* what get answers when it opens and reads content without an I/O failure
Fetched(content) ==
    IF Parse(content).ok THEN OkResult(Parse(content).rec)
    ELSE PanicResult("parse")

\* an id the query is called with: a caller-supplied contact id, or the
\* decimal content hash of a contact
GetIds == IdVals \cup {Decimal(Hash(c)) : c \in Contact}

(* ------------------------------- state --------------------------------- *)
VARIABLES
    fs,        \* the base directory: file name -> bytes
    pc,        \* per worker: where its handler is
    op,        \* per worker: "create", "get" or "none"
    contact,   \* per worker: the Contact a mutation carries
    qid,       \* per worker: the id a query carries
    idx,       \* per worker: writes of the serializer done so far
    buf,       \* per worker: what read_to_string read
    res,       \* per worker: the repository's result
    resp,      \* per worker: the GraphQL field result
    found,     \* per worker: whether the file existed when get opened it
    trunc,     \* per file: who truncated it last, who else wrote since
    last,      \* the request that finished last
    stored,    \* the contacts File::create has succeeded for, with the file
    nreq,      \* requests accepted
    faults     \* I/O failures injected

vars == <<fs, pc, op, contact, qid, idx, buf, res, resp, found, trunc, last,
          stored, nreq, faults>>

NoLast == [op |-> "none", contact |-> NoContact, ok |-> FALSE, fs |-> <<>>]

Init ==
    /\ fs = <<>>
    /\ pc = [w \in Procs |-> "idle"]
    /\ op = [w \in Procs |-> "none"]
    /\ contact = [w \in Procs |-> NoContact]
    /\ qid = [w \in Procs |-> <<>>]
    /\ idx = [w \in Procs |-> 0]
    /\ buf = [w \in Procs |-> <<>>]
    /\ res = [w \in Procs |-> NoResult]
    /\ resp = [w \in Procs |-> NoResponse]
    /\ found = [w \in Procs |-> FALSE]
    /\ trunc = <<>>
    /\ last = NoLast
    /\ stored = {}
    /\ nreq = 0
    /\ faults = 0

Quiet(w) == \A v \in Procs \ {w} : pc[v] = "idle"

(* ------------------------------ mutation ------------------------------- *)
\* a create mutation arrives at worker w; Into<Contact> for MutationCreate
AcceptCreate(w) ==
    /\ pc[w] = "idle"
    /\ \E c \in Contact :
         /\ contact' = [contact EXCEPT ![w] = c]
         /\ op' = [op EXCEPT ![w] = "create"]
         /\ pc' = [pc EXCEPT ![w] = "create"]
    /\ nreq' = nreq + 1
    /\ UNCHANGED <<fs, qid, idx, buf, res, resp, found, trunc, last, stored, faults>>

\* FileRepository::set up to File::create(path)?
SetCreate(w) ==
    /\ pc[w] = "create"
    /\ LET p == PathTable[contact[w]] IN
         /\ fs' = Truncated(fs, p)
         /\ trunc' = [q \in (DOMAIN trunc) \cup {p} |->
                        IF q = p THEN [owner |-> w, foreign |-> FALSE] ELSE trunc[q]]
    /\ stored' = stored \cup {[c |-> contact[w], path |-> PathTable[contact[w]]]}
    /\ idx' = [idx EXCEPT ![w] = 0]
    /\ pc' = [pc EXCEPT ![w] = "write"]
    /\ UNCHANGED <<op, contact, qid, buf, res, resp, found, last, nreq, faults>>

\* File::create fails: set returns the io::Error
SetCreateFails(w) ==
    /\ pc[w] = "create"
    /\ faults < MaxFaults
    /\ faults' = faults + 1
    /\ res' = [res EXCEPT ![w] = ErrResult("io")]
    /\ pc' = [pc EXCEPT ![w] = "reply"]
    /\ UNCHANGED <<fs, op, contact, qid, idx, buf, resp, found, trunc, last, stored, nreq>>

SetWriteShort(w) ==
    /\ pc[w] = "write"
    /\ LET p == PathTable[contact[w]]
           chunks == ChunkTable[contact[w]]
           k == idx[w] + 1
       IN /\ fs' = [fs EXCEPT ![p] = WriteAt(fs[p], OffsetTable[contact[w]][idx[w]], chunks[k])]
          /\ trunc' = [trunc EXCEPT ![p].foreign = @ \/ trunc[p].owner # w]
          /\ idx' = [idx EXCEPT ![w] = k]
          /\ IF k = Len(chunks) - 1
             THEN /\ res' = [res EXCEPT ![w] = OkResult(contact[w])]
                  /\ pc' = [pc EXCEPT ![w] = "reply"]
             ELSE UNCHANGED <<res, pc>>
    /\ UNCHANGED <<op, contact, qid, buf, resp, found, last, stored, nreq, faults>>

\* one write of serde_json::to_writer; after the last one set returns Ok(obj)
SetWrite(w) ==
    /\ pc[w] = "write"
    /\ LET p == PathTable[contact[w]]
           chunks == ChunkTable[contact[w]]
           k == idx[w] + 1
       IN /\ fs' = [fs EXCEPT ![p] = WriteAt(fs[p], OffsetTable[contact[w]][idx[w]], chunks[k])]
          /\ trunc' = [trunc EXCEPT ![p].foreign = @ \/ trunc[p].owner # w]
          /\ idx' = [idx EXCEPT ![w] = k]
          /\ IF k = Len(chunks)
             THEN /\ res' = [res EXCEPT ![w] = OkResult(contact[w])]
                  /\ pc' = [pc EXCEPT ![w] = "reply"]
             ELSE UNCHANGED <<res, pc>>
    /\ UNCHANGED <<op, contact, qid, buf, resp, found, last, stored, nreq, faults>>

\* a write fails: expect("Unable to serialized") panics
SetWriteFails(w) ==
    /\ pc[w] = "write"
    /\ faults < MaxFaults
    /\ faults' = faults + 1
    /\ res' = [res EXCEPT ![w] = PanicResult("io")]
    /\ pc' = [pc EXCEPT ![w] = "reply"]
    /\ UNCHANGED <<fs, op, contact, qid, idx, buf, resp, found, trunc, last, stored, nreq>>

(* -------------------------------- query -------------------------------- *)
\* a get query arrives at worker w
AcceptGet(w) ==
    /\ pc[w] = "idle"
    /\ \E id \in GetIds :
         /\ qid' = [qid EXCEPT ![w] = id]
         /\ op' = [op EXCEPT ![w] = "get"]
         /\ pc' = [pc EXCEPT ![w] = "open"]
    /\ nreq' = nreq + 1
    /\ UNCHANGED <<fs, contact, idx, buf, res, resp, found, trunc, last, stored, faults>>

GetOpenDefault(w) ==
    /\ pc[w] = "open"
    /\ found' = [found EXCEPT ![w] = GetPath(qid[w]) \in DOMAIN fs]
    /\ IF GetPath(qid[w]) \in DOMAIN fs
       THEN /\ pc' = [pc EXCEPT ![w] = "read"]
            /\ res' = res
       ELSE /\ pc' = [pc EXCEPT ![w] = "reply"]
            /\ res' = [res EXCEPT ![w] = OkResult(NoContact)]
    /\ UNCHANGED <<fs, op, contact, qid, idx, buf, resp, trunc, last, stored, nreq, faults>>

\* FileRepository::get up to File::open(&path)?
GetOpen(w) ==
    /\ pc[w] = "open"
    /\ found' = [found EXCEPT ![w] = GetPath(qid[w]) \in DOMAIN fs]
    /\ IF GetPath(qid[w]) \in DOMAIN fs
       THEN /\ pc' = [pc EXCEPT ![w] = "read"]
            /\ res' = res
       ELSE /\ pc' = [pc EXCEPT ![w] = "reply"]
            /\ res' = [res EXCEPT ![w] = ErrResult("enoent")]
    /\ UNCHANGED <<fs, op, contact, qid, idx, buf, resp, trunc, last, stored, nreq, faults>>

\* File::open or read_to_string fails on a file that exists
GetIoFails(w) ==
    /\ pc[w] \in {"open", "read"}
    /\ GetPath(qid[w]) \in DOMAIN fs
    /\ faults < MaxFaults
    /\ faults' = faults + 1
    /\ found' = [found EXCEPT ![w] = TRUE]
    /\ res' = [res EXCEPT ![w] = ErrResult("io")]
    /\ pc' = [pc EXCEPT ![w] = "reply"]
    /\ UNCHANGED <<fs, op, contact, qid, idx, buf, resp, trunc, last, stored, nreq>>

GetReadRemoves(w) ==
    /\ pc[w] = "read"
    /\ buf' = [buf EXCEPT ![w] = fs[GetPath(qid[w])]]
    /\ res' = [res EXCEPT ![w] = Fetched(fs[GetPath(qid[w])])]
    /\ pc' = [pc EXCEPT ![w] = "reply"]
    /\ fs' = [q \in (DOMAIN fs) \ {GetPath(qid[w])} |-> fs[q]]
    /\ trunc' = [q \in (DOMAIN trunc) \ {GetPath(qid[w])} |-> trunc[q]]
    /\ UNCHANGED <<op, contact, qid, idx, resp, found, last, stored, nreq, faults>>

\* read_to_string, then serde_json::from_str(..).expect(..) and Ok(result)
GetRead(w) ==
    /\ pc[w] = "read"
    /\ buf' = [buf EXCEPT ![w] = fs[GetPath(qid[w])]]
    /\ res' = [res EXCEPT ![w] = Fetched(fs[GetPath(qid[w])])]
    /\ pc' = [pc EXCEPT ![w] = "reply"]
    /\ UNCHANGED <<fs, op, contact, qid, idx, resp, found, trunc, last, stored, nreq, faults>>

(* ------------------------------- replies ------------------------------- *)
\* the use case returns and the resolver maps its result
Reply(w) ==
    /\ pc[w] = "reply"
    /\ resp' = [resp EXCEPT ![w] =
                  IF op[w] = "create" THEN MutationCreate(UseCaseCreate(res[w]))
                  ELSE QueryGet(UseCaseGet(res[w]))]
    /\ pc' = [pc EXCEPT ![w] = "done"]
    /\ UNCHANGED <<fs, op, contact, qid, idx, buf, res, found, trunc, last, stored, nreq, faults>>

\* the response has gone out; the worker takes the next request
Finish(w) ==
    /\ pc[w] = "done"
    /\ last' = [op |-> op[w], contact |-> contact[w], ok |-> res[w].kind = "ok",
                fs |-> IF op[w] = "create" /\ res[w].kind = "ok" THEN fs ELSE <<>>]
    /\ pc' = [pc EXCEPT ![w] = "idle"]
    /\ op' = [op EXCEPT ![w] = "none"]
    /\ contact' = [contact EXCEPT ![w] = NoContact]
    /\ qid' = [qid EXCEPT ![w] = <<>>]
    /\ idx' = [idx EXCEPT ![w] = 0]
    /\ buf' = [buf EXCEPT ![w] = <<>>]
    /\ res' = [res EXCEPT ![w] = NoResult]
    /\ resp' = [resp EXCEPT ![w] = NoResponse]
    /\ found' = [found EXCEPT ![w] = FALSE]
    /\ UNCHANGED <<fs, trunc, stored, nreq, faults>>

(* --------------------------- specifications ---------------------------- *)
\* the server's workers run their handlers concurrently
BeginCreate(w) == nreq < MaxConc /\ AcceptCreate(w)

BeginGet(w) == nreq < MaxConc /\ AcceptGet(w)

Next ==
    \E w \in Procs :
        \/ BeginCreate(w)
        \/ SetCreate(w)
        \/ SetCreateFails(w)
        \/ SetWrite(w)
        \/ SetWriteFails(w)
        \/ BeginGet(w)
        \/ GetOpen(w)
        \/ GetIoFails(w)
        \/ GetRead(w)
        \/ Reply(w)
        \/ Finish(w)

Spec == Init /\ [][Next]_vars

\* one request at a time: a request starts only when no other is in flight
BeginCreateAlone(w) == nreq < MaxReq /\ Quiet(w) /\ AcceptCreate(w)

BeginGetAlone(w) == nreq < MaxReq /\ Quiet(w) /\ AcceptGet(w)

NextSerial ==
    \E w \in Procs :
        \/ BeginCreateAlone(w)
        \/ SetCreate(w)
        \/ SetCreateFails(w)
        \/ SetWrite(w)
        \/ SetWriteFails(w)
        \/ BeginGetAlone(w)
        \/ GetOpen(w)
        \/ GetIoFails(w)
        \/ GetRead(w)
        \/ Reply(w)
        \/ Finish(w)

SpecSerial == Init /\ [][NextSerial]_vars

(* ------------------------------ properties ----------------------------- *)
Answered(w) == pc[w] \in {"reply", "done"}

\* the previous request was a create of a contact that set stored
LastStored == last.op = "create" /\ last.ok

StrictPrefix(a, b) == Len(a) < Len(b) /\ SubSeq(b, 1, Len(a)) = a

\* distinct byte feeds that the digest maps to one value
Collide(a, b) ==
    /\ HashFeed(a) # HashFeed(b)
    /\ Digest(HashFeed(a)) = Digest(HashFeed(b))

\* C1: a successful set(r) immediately followed by get of r's content hash,
\* with no I/O failure, returns Ok with a record equal to r in every field.
C1_RoundTrip ==
    \A w \in Procs :
        (/\ pc[w] = "done" /\ op[w] = "get"
         /\ LastStored
         /\ qid[w] = Decimal(Hash(last.contact))
         /\ res[w].why # "io")
        => res[w] = OkResult(last.contact)

\* C2: after create(contact) succeeds, the query get(contact.id), with no I/O
\* failure, returns the full stored record of that contact, not an error.
C2_LookupById ==
    \A w \in Procs :
        (/\ pc[w] = "done" /\ op[w] = "get"
         /\ LastStored
         /\ qid[w] = last.contact.id
         /\ res[w].why # "io")
        => /\ res[w] = OkResult(last.contact)
           /\ resp[w] = [kind |-> "contact", contact |-> last.contact]

\* C3: a get whose file does not exist when it opens it returns an error
\* value, and the query a failure message; never Ok with any record.
C3_MissingIdFetch ==
    \A w \in Procs :
        (op[w] = "get" /\ Answered(w) /\ ~found[w])
        => /\ res[w].kind = "err"
           /\ pc[w] = "done" => resp[w].kind = "failure"

C3_Witness ==
    \E w \in Procs :
        /\ op[w] = "get" /\ pc[w] = "done" /\ ~found[w]
        /\ resp[w].kind = "failure"
        /\ DOMAIN fs # {}

\* C4: set writes contacts with identical fields to the same file, and
\* contacts that differ in any field to different files unless their hash
\* feeds collide under the digest.
C4_ContentHashAddressing ==
    \A x \in stored : \A y \in stored :
        /\ x.c = y.c => x.path = y.path
        /\ (x.c # y.c /\ ~Collide(x.c, y.c)) => x.path # y.path

C4_Witness ==
    \E x \in stored : \E y \in stored :
        /\ x.c # y.c /\ ~Collide(x.c, y.c)
        /\ x.path \in DOMAIN fs /\ y.path \in DOMAIN fs
        /\ x.path # y.path

\* C5: a second successful set(r) right after a successful set(r) leaves the
\* directory exactly as the first left it, and a fetch of r's file answers
\* the same after both.
C5_SetIdempotent ==
    \A w \in Procs :
        (/\ op[w] = "create" /\ Answered(w) /\ res[w].kind = "ok"
         /\ LastStored /\ last.contact = contact[w])
        => /\ fs = last.fs
           /\ Fetched(fs[SetPath(contact[w])]) = Fetched(last.fs[SetPath(contact[w])])

C5_Witness ==
    \E w \in Procs :
        /\ op[w] = "create" /\ pc[w] = "done" /\ res[w].kind = "ok"
        /\ LastStored /\ last.contact = contact[w]
        /\ fs[SetPath(contact[w])] = Serialize(contact[w])

\* C6: when set succeeds the mutation answers a payload of exactly the input's
\* first_name and last_name and the record is in its file; when set fails
\* with an I/O error the mutation answers a failure message; a payload is
\* never answered for a record that was not written in full.
C6_CreateOutcome ==
    \A w \in Procs :
        (op[w] = "create" /\ pc[w] = "done")
        => /\ res[w].kind = "ok"
                => /\ resp[w] = [kind |-> "payload",
                                 payload |-> [first_name |-> contact[w].first_name,
                                              last_name |-> contact[w].last_name]]
                   /\ fs[SetPath(contact[w])] = Serialize(contact[w])
           /\ res[w].kind = "err"
                => /\ UseCaseCreate(res[w]) = ErrResult("io")
                   /\ resp[w] = [kind |-> "failure", msg |-> "io"]
           /\ resp[w].kind = "payload"
                => /\ idx[w] = Len(SerChunks(contact[w]))
                   /\ SetPath(contact[w]) \in DOMAIN fs

C6_Witness ==
    \E w \in Procs :
        /\ op[w] = "create" /\ pc[w] = "done"
        /\ res[w].kind = "err"
        /\ resp[w].kind = "failure"
        /\ SetPath(contact[w]) \notin DOMAIN fs

\* C7: set is not atomic: from its File::create to its last write, as long as
\* no other writer touches the file, the file every reader sees holds exactly
\* the writes done so far, a strict prefix of the record's serialization
\* (empty right after the create).
C7_PartialFileVisible ==
    \A w \in Procs :
        LET p == PathTable[contact[w]] IN
        (/\ op[w] = "create" /\ pc[w] = "write"
         /\ trunc[p].owner = w /\ ~trunc[p].foreign)
        => /\ fs[p] = SubSeq(SerialTable[contact[w]], 1, OffsetTable[contact[w]][idx[w]])
           /\ StrictPrefix(fs[p], SerialTable[contact[w]])

\* a get has read a strict prefix of what a set in progress is writing
C7_Witness ==
    \E w \in Procs : \E g \in Procs :
        /\ op[w] = "create" /\ pc[w] = "write" /\ idx[w] > 0
        /\ op[g] = "get" /\ Answered(g) /\ found[g]
        /\ GetPath(qid[g]) = SetPath(contact[w])
        /\ buf[g] # <<>>
        /\ StrictPrefix(buf[g], Serialize(contact[w]))
        /\ res[g].kind = "panic"

BothStored(w, v) ==
    /\ w # v
    /\ op[w] = "create" /\ Answered(w) /\ res[w].kind = "ok"
    /\ op[v] = "create" /\ Answered(v) /\ res[v].kind = "ok"
    /\ SetPath(contact[w]) = SetPath(contact[v])

\* C8 as stated: once two set calls on one path have both completed, the
\* file holds the complete serialization of one of the two records.
C8_LastWriterWins ==
    \A w \in Procs : \A v \in Procs :
        BothStored(w, v)
        => fs[SetPath(contact[w])] \in {Serialize(contact[w]), Serialize(contact[v])}

\* C8 amended: once two set calls that store the same record have both
\* returned Ok, the file holds the complete serialization of that record.
C8_SameRecordWins ==
    \A w \in Procs : \A v \in Procs :
        (BothStored(w, v) /\ contact[w] = contact[v])
        => fs[SetPath(contact[w])] = Serialize(contact[w])

\* the two calls overlapped: one wrote after the other's File::create
C8_Witness ==
    \E w \in Procs : \E v \in Procs :
        /\ BothStored(w, v) /\ contact[w] = contact[v]
        /\ trunc[SetPath(contact[w])].foreign

\* C9: a get that finds no file, or cannot open or read it, returns an error
\* value, which the use case passes on unchanged and the query turns into a
\* failure message; a get that reads content that is no valid record aborts;
\* get returns Ok only with the record parsed from what it read.
C9_GetFailureModes ==
    \A w \in Procs :
        (op[w] = "get" /\ Answered(w))
        => /\ (~found[w] \/ res[w].why = "io")
                => /\ res[w].kind = "err"
                   /\ UseCaseGet(res[w]) = res[w]
                   /\ pc[w] = "done" => resp[w].kind = "failure"
           /\ (found[w] /\ res[w].why # "io" /\ ~Parse(buf[w]).ok)
                => /\ res[w].kind = "panic"
                   /\ pc[w] = "done" => resp[w].kind = "aborted"
           /\ res[w].kind = "ok"
                => /\ found[w] /\ Parse(buf[w]).ok
                   /\ res[w].rec = Parse(buf[w]).rec

C9_Witness ==
    \E w \in Procs :
        /\ op[w] = "get" /\ pc[w] = "done" /\ found[w]
        /\ buf[w] # <<>> /\ ~Parse(buf[w]).ok
        /\ resp[w].kind = "aborted"

Stepped(w) == pc'[w] # pc[w] \/ idx'[w] # idx[w]

\* C10: no step removes a file; a file is created or changed only by a step
\* of a set whose computed path it is; a step of a get changes no file; every
\* file at another path holds after a step of set what it held before, so a
\* fetch there answers the same.
C10_Frame ==
    [][/\ \A p \in DOMAIN fs : p \in DOMAIN fs'
       /\ \A p \in DOMAIN fs' :
            (p \notin DOMAIN fs \/ fs'[p] # fs[p])
            => \E w \in Procs :
                 /\ Stepped(w) /\ op[w] = "create"
                 /\ pc[w] \in {"create", "write"}
                 /\ SetPath(contact[w]) = p
       /\ (\E w \in Procs : Stepped(w) /\ op[w] = "get") => fs' = fs
       /\ \A p \in DOMAIN fs :
            (\A w \in Procs :
                (Stepped(w) /\ op[w] = "create") => SetPath(contact[w]) # p)
            => fs'[p] = fs[p]]_vars

\* after set(a) and then set(b) at another path, a's file still holds a
C10_Witness ==
    \E w \in Procs :
        /\ op[w] = "create" /\ Answered(w) /\ res[w].kind = "ok"
        /\ LastStored
        /\ SetPath(last.contact) # SetPath(contact[w])
        /\ fs[SetPath(last.contact)] = Serialize(last.contact)
        /\ Fetched(fs[SetPath(last.contact)]) = OkResult(last.contact)

====
